---- MODULE Spec2Model ----
(***************************************************************************)
(* Model of the spoken-conversation pipeline of the roleplay front end:    *)
(*   - AudioRecorder (src/src/lib/audio.ts): the VAD interval callback,    *)
(*     the silence timeout, the MediaRecorder captures and the public      *)
(*     pause/resume/interrupt-mode methods;                                *)
(*   - RoleplayApp (src/unnamed/part_016): handleToggleVAD and its two     *)
(*     recorder callbacks, handleSend/handleSendStream with the SSE read   *)
(*     loop, the playback loop, playAudioWithWebAudio and stopAllAudio.    *)
(*                                                                         *)
(* Time.  The code reads Date.now() and only ever compares differences     *)
(* (Date.now() - voiceStartTime, Date.now() - recordingStartTime) with     *)
(* constants.  The model keeps those differences, in milliseconds, and     *)
(* advances them by the 100 ms period of the VAD interval; a difference    *)
(* stops growing at the constant it is compared with.  voiceStartTime = 0  *)
(* (the code's "not started" sentinel) is NoTime.                          *)
(*                                                                         *)
(* Levels.  A level sample is the maximum byte of the analyser's frequency *)
(* data; the code's level is (max / 255) * 100 and is compared with the    *)
(* thresholds by Above.  state.level, which only the level meter reads,    *)
(* is not kept in rec; the history keeps the last sample.                  *)
(*                                                                         *)
(* JavaScript runs one task at a time: every action below is one task      *)
(* (a timer or interval callback, a network or media event, a user         *)
(* gesture) together with the promise continuations it makes runnable.     *)
(***************************************************************************)
EXTENDS Integers, Sequences, FiniteSets, TLC

MaxReplies == 2      \* handleSendStream invocations in one run
MaxChunks == 3       \* audio events in one reply stream (SpecReply)
MaxRepliesVAD == 1   \* handleSendStream invocations in one run of Spec
MaxRepliesSingle == 1  \* the same, in SpecSingle and SpecStream
MaxChunksVAD == 2    \* audio events in one reply stream (Spec)
MaxChunksOverlap == 1  \* audio events in one reply stream (SpecOverlap)
MaxOrphans == 2      \* leaked captures / duration intervals that are counted
MaxEvents == 2       \* recorder callbacks that are counted
MaxSpikes == 2       \* short voice runs that are counted

vadThreshold == 75
vadInterruptThreshold == 85
silenceDuration == 400
minRecordingDuration == 1000
voiceContinueDuration == 400
minBlobSize == 2048
IntervalMs == 100

NoTime == -1
NoReply == 0

\* bytes read from the analyser: 74.9, 80.0 and 85.1 on the 0..100 scale
Levels == {191, 204, 217}

Min(a, b) == IF a < b THEN a ELSE b

\* level = (max / 255) * 100;  level > threshold
Above(max, threshold) == max * 100 > threshold * 255

VARIABLES
  rec,       \* the AudioRecorder instance and the browser objects it owns
  app,       \* RoleplayApp state and refs
  replies,   \* the locals of each handleSendStream invocation
  audio,     \* Web Audio sources: currentAudioSourceRef and what is sounding
  obs,       \* history of samples and emitted events (not program state)
  lim        \* the bounds of the specification being checked (never changes)

vars == <<rec, app, replies, audio, obs, lim>>

(***************************************************************************)
(* AudioRecorder (src/src/lib/audio.ts)                                    *)
(*                                                                         *)
(* Fields of rec that are fields of the class keep their names.            *)
(*   voiceDuration      Date.now() - voiceStartTime, NoTime for 0          *)
(*   recordingDuration  Date.now() - recordingStartTime                    *)
(*   silenceTimeout     the handle is non-null                             *)
(*   silenceTimer       time left on the browser timeout behind the        *)
(*                      handle, NoTime when none is pending                *)
(*   mediaRecorder      "null", or "recording" for a started MediaRecorder *)
(*   orphanRecorders    MediaRecorders still recording that no field       *)
(*                      references any more                                *)
(*   timer, orphanTimers  the same for the duration interval               *)
(*   stream             stream, analyser, microphone and audioContext:     *)
(*                      set together by startVAD, cleared together by      *)
(*                      cleanupMedia                                       *)
(*   levelInterval      the VAD interval is installed                      *)
(*   pendingStops       stop events queued by MediaRecorder.stop() whose   *)
(*                      onstop handler has not run yet                     *)
(*   recOrigin          how the running recording was started              *)
(***************************************************************************)
RecInit ==
  [ vadEnabled |-> FALSE, vadPaused |-> FALSE, isInterruptMode |-> FALSE,
    onInterruptCallback |-> NoReply, silenceTimeout |-> FALSE,
    silenceTimer |-> NoTime, isVadRecording |-> FALSE,
    voiceDuration |-> NoTime, recordingDuration |-> minRecordingDuration,
    mediaRecorder |-> "null", orphanRecorders |-> 0,
    stateIsRecording |-> FALSE,
    timer |-> FALSE, orphanTimers |-> 0,
    stream |-> FALSE, levelInterval |-> FALSE,
    pendingStops |-> <<>>, recOrigin |-> "none" ]

startTimer(r) ==
  [r EXCEPT !.timer = TRUE,
            !.orphanTimers = IF r.timer THEN Min(r.orphanTimers + 1, MaxOrphans)
                             ELSE r.orphanTimers]

stopTimer(r) == [r EXCEPT !.timer = FALSE]

\* clearTimeout(this.silenceTimeout); this.silenceTimeout = null
clearSilenceTimeout(r) ==
  [r EXCEPT !.silenceTimeout = FALSE, !.silenceTimer = NoTime]

cleanupMedia(r) ==
  [r EXCEPT !.mediaRecorder = "null", !.orphanRecorders = 0, !.stream = FALSE]

stopVADMonitoring(r) ==
  [clearSilenceTimeout(r) EXCEPT !.levelInterval = FALSE]

\* stop(): its onstop handler resolves the blob to the caller and never
\* calls onVadStopCallback
stop(r) ==
  IF r.mediaRecorder = "null" \/ ~r.stateIsRecording THEN r
  ELSE [r EXCEPT !.pendingStops = Append(@, [handler |-> "stop",
                                              short |-> FALSE,
                                              origin |-> r.recOrigin])]

startVADRecording(r) ==
  IF ~r.stream THEN r
  ELSE startTimer(
         [r EXCEPT !.orphanRecorders =
                      IF r.mediaRecorder = "recording"
                      THEN Min(r.orphanRecorders + 1, MaxOrphans)
                      ELSE r.orphanRecorders,
                   !.mediaRecorder = "recording",
                   !.stateIsRecording = TRUE])

stopVADRecording(r) ==
  IF r.mediaRecorder = "null" \/ ~r.isVadRecording THEN r
  ELSE [r EXCEPT !.isVadRecording = FALSE,
                 !.pendingStops =
                    Append(@, [handler |-> "vad",
                               short |-> r.recordingDuration < minRecordingDuration,
                               origin |-> r.recOrigin]),
                 !.mediaRecorder = "null"]

stopVAD(r) ==
  LET r1 == [r EXCEPT !.vadEnabled = FALSE, !.vadPaused = FALSE,
                      !.voiceDuration = NoTime]
      r2 == IF r1.isVadRecording THEN stop(r1) ELSE r1
  IN cleanupMedia(stopVADMonitoring(r2))

pauseVAD(r) ==
  LET r1 == [r EXCEPT !.vadPaused = TRUE, !.voiceDuration = NoTime]
      r2 == IF r1.silenceTimeout THEN clearSilenceTimeout(r1) ELSE r1
  IN IF r2.isVadRecording THEN stopVADRecording(r2) ELSE r2

resumeVAD(r) == [r EXCEPT !.vadPaused = FALSE, !.isInterruptMode = FALSE]

enableInterruptMode(r, onInterrupt) ==
  [r EXCEPT !.isInterruptMode = TRUE, !.onInterruptCallback = onInterrupt,
            !.vadPaused = FALSE]

disableInterruptMode(r) ==
  [r EXCEPT !.isInterruptMode = FALSE, !.onInterruptCallback = NoReply]

\* startVAD with getUserMedia granted, then startVADMonitoring
startVAD(r) ==
  [r EXCEPT !.vadEnabled = TRUE, !.stream = TRUE, !.levelInterval = TRUE]

(***************************************************************************)
(* The VAD interval callback, split at the callbacks it makes into the     *)
(* app.  vadBranch is the branch the callback takes for a sample.          *)
(***************************************************************************)
\* variant: normal mode takes the voice branch whatever the level
vadBranch_AnyLevel(r, max) ==
  IF ~r.stream \/ ~r.vadEnabled THEN "stopped"
  ELSE IF r.vadPaused /\ ~r.isInterruptMode THEN "paused"
  ELSE IF r.isInterruptMode /\ Above(max, vadInterruptThreshold) THEN "interrupt"
  ELSE IF ~r.isInterruptMode THEN "voice"
  ELSE "quiet"

vadBranch(r, max) ==
  IF ~r.stream \/ ~r.vadEnabled THEN "stopped"
  ELSE IF r.vadPaused /\ ~r.isInterruptMode THEN "paused"
  ELSE IF r.isInterruptMode /\ Above(max, vadInterruptThreshold) THEN "interrupt"
  ELSE IF ~r.isInterruptMode /\ Above(max, vadThreshold) THEN "voice"
  ELSE "quiet"

\* lines 513-516, after onInterruptCallback has returned
interruptStart(r) ==
  startVADRecording([r EXCEPT !.isInterruptMode = FALSE,
                              !.isVadRecording = TRUE,
                              !.recordingDuration = 0,
                              !.recOrigin = "interrupt"])

\* the continuity check passes on this sample
voiceConfirmed(r) ==
  /\ ~r.isVadRecording
  /\ (IF r.voiceDuration = NoTime THEN 0 ELSE r.voiceDuration) >= voiceContinueDuration

\* lines 524-555
voiceSample(r) ==
  LET r1 == IF r.isVadRecording THEN [r EXCEPT !.voiceDuration = NoTime]
            ELSE IF voiceConfirmed(r)
            THEN startVADRecording([r EXCEPT !.isVadRecording = TRUE,
                                             !.recordingDuration = 0,
                                             !.voiceDuration = NoTime,
                                             !.recOrigin = "onset"])
            ELSE [r EXCEPT !.voiceDuration = IF @ = NoTime THEN 0 ELSE @]
  IN IF r1.silenceTimeout THEN clearSilenceTimeout(r1) ELSE r1

\* variant: a quiet sample leaves voiceStartTime alone
quietSample_CarryOver(r) ==
  IF r.isVadRecording /\ ~r.silenceTimeout
  THEN [r EXCEPT !.silenceTimeout = TRUE, !.silenceTimer = silenceDuration]
  ELSE r

\* lines 556-586
quietSample(r) ==
  LET r1 == [r EXCEPT !.voiceDuration = NoTime]
  IN IF r1.isVadRecording /\ ~r1.silenceTimeout
     THEN [r1 EXCEPT !.silenceTimeout = TRUE, !.silenceTimer = silenceDuration]
     ELSE r1

\* variant: the silence timeout without the minimum-duration check
silenceCallback_NoFloor(r) == stopVADRecording([r EXCEPT !.silenceTimer = NoTime])

\* the setTimeout callback of lines 566-584; the handle is not reset
\* when the timeout has fired
silenceCallback(r) ==
  LET r1 == [r EXCEPT !.silenceTimer = NoTime]
  IN IF r1.recordingDuration < minRecordingDuration
     THEN stopTimer([r1 EXCEPT !.mediaRecorder = "null",
                               !.isVadRecording = FALSE,
                               !.stateIsRecording = FALSE])
     ELSE stopVADRecording(r1)

\* 100 ms pass
elapse(r) ==
  [r EXCEPT !.voiceDuration = IF @ = NoTime THEN NoTime
                              ELSE Min(@ + IntervalMs, voiceContinueDuration),
            !.recordingDuration = Min(@ + IntervalMs, minRecordingDuration),
            !.silenceTimer = IF @ = NoTime THEN NoTime ELSE @ - IntervalMs]

(***************************************************************************)
(* handleSendStream (src/unnamed/part_016): the locals of one invocation.  *)
(*   rd        where the body of handleSendStream is: "none" (not called), *)
(*             "fetching" (await fetch), "reading" (await reader.read()),  *)
(*             "done" (returned after the read loop), "failed" (returned   *)
(*             through catch)                                              *)
(*   nrecv     audio events pushed so far; a chunk is named by its number  *)
(*   lp        where playbackLoop is: "waiting" (await waitForQueue with   *)
(*             resolveWaiter set), "decoding" (await decodeAudioData),     *)
(*             "playing" (await the source's onended), "spinning" (the     *)
(*             while loop turning without suspending), "exited"            *)
(*   cur       the chunk playbackLoop has taken from the queue             *)
(*   vadMode   the argument; closVAD is the isVADMode the closure          *)
(*             captured                                                    *)
(*   started   chunks whose source has been started, in order; cut is set  *)
(*             when stopAllAudio of this invocation has run (history)      *)
(*   nevents   events carrying text that the stream has delivered; the     *)
(*             text fragment of an event is named by its number (history)  *)
(*   fullText  the fragments appended to fullText, in order                *)
(*   seqs      data.chunk of each enqueued chunk, in arrival order         *)
(*             (the code only logs it)                                     *)
(*   undecoded the chunks whose decodeAudioData rejected (history)         *)
(*   skippedAt nrecv when the latest malformed event was caught (history)  *)
(***************************************************************************)
ReplyInit ==
  [ rd |-> "none", streamReader |-> FALSE, nrecv |-> 0, audioQueue |-> <<>>,
    isPlaying |-> FALSE, playbackLoopRunning |-> FALSE,
    resolveWaiter |-> FALSE, interruptModeEnabled |-> FALSE,
    lp |-> "none", cur |-> 0, vadMode |-> FALSE, closVAD |-> FALSE,
    started |-> <<>>, cut |-> FALSE,
    nevents |-> 0, fullText |-> <<>>, seqs |-> <<>>, undecoded |-> <<>>,
    skippedAt |-> NoTime ]

Replies == 1..MaxReplies
NoSource == <<0, 0>>

\* variant: the loop takes the newest chunk of the queue
loopTop_Newest(q) ==
  IF ~q.playbackLoopRunning THEN [q EXCEPT !.lp = "exited"]
  ELSE IF q.audioQueue = <<>>
       THEN [q EXCEPT !.lp = "waiting", !.resolveWaiter = TRUE]
  ELSE IF q.isPlaying THEN [q EXCEPT !.lp = "spinning"]
  ELSE [q EXCEPT !.lp = "decoding", !.cur = q.audioQueue[Len(q.audioQueue)],
                 !.audioQueue = SubSeq(q.audioQueue, 1, Len(q.audioQueue) - 1),
                 !.isPlaying = TRUE]

\* one turn of while (playbackLoopRunning) up to the next suspension
loopTop(q) ==
  IF ~q.playbackLoopRunning THEN [q EXCEPT !.lp = "exited"]
  ELSE IF q.audioQueue = <<>>
       THEN [q EXCEPT !.lp = "waiting", !.resolveWaiter = TRUE]
  ELSE IF q.isPlaying THEN [q EXCEPT !.lp = "spinning"]
  ELSE [q EXCEPT !.lp = "decoding", !.cur = Head(q.audioQueue),
                 !.audioQueue = Tail(q.audioQueue), !.isPlaying = TRUE]

\* resolveWaiter(); resolveWaiter = null, and the loop's continuation
wake(q) ==
  IF q.resolveWaiter THEN loopTop([q EXCEPT !.resolveWaiter = FALSE]) ELSE q

\* finally { isPlaying = false } and the next turn of the loop
afterPlay(q) == loopTop([q EXCEPT !.isPlaying = FALSE])

\* the statements after the while loop: resumeVAD if the closure saw VAD mode
loopEnd(r, before, after) ==
  IF after.lp = "exited" /\ before.lp # "exited" /\ after.closVAD
  THEN resumeVAD(r) ELSE r

\* reader.read() answers done: line 411 and the rest of the try block
readDone(q) == [q EXCEPT !.playbackLoopRunning = FALSE, !.rd = "done"]

\* variant: stopAllAudio that clears the queue and leaves the reader alone
stopAllAudioLocals_KeepReader(q) ==
  wake([q EXCEPT !.audioQueue = <<>>, !.isPlaying = FALSE,
                 !.interruptModeEnabled = FALSE, !.cut = TRUE])

\* stopAllAudio, the part on the invocation's locals; a cancelled read
\* answers done before the woken loop continues
stopAllAudioLocals(q) ==
  LET q1 == [q EXCEPT !.streamReader = FALSE, !.audioQueue = <<>>,
                      !.isPlaying = FALSE, !.interruptModeEnabled = FALSE,
                      !.cut = TRUE]
      q2 == IF q.streamReader /\ q.rd = "reading" THEN readDone(q1) ELSE q1
  IN wake(q2)

\* stopAllAudio on the shared source ref
stopAllAudioSource(a) ==
  [a EXCEPT !.sounding = @ \ {a.currentAudioSourceRef},
            !.currentAudioSourceRef = NoSource]

\* audioQueue.push, fullText +=, resolveWaiter and enableInterruptMode of
\* lines 376-390, for an event whose data.chunk is seq
pushChunk(q, seq) ==
  LET n == q.nrecv + 1
      q1 == [q EXCEPT !.nrecv = n, !.audioQueue = Append(@, n),
                      !.nevents = @ + 1, !.fullText = Append(@, q.nevents + 1),
                      !.seqs = Append(@, seq)]
      q2 == wake(q1)
  IN [q2 EXCEPT !.interruptModeEnabled = @ \/ q.vadMode]

AppInit ==
  [ isVADMode |-> FALSE, isSending |-> FALSE, isRecording |-> FALSE,
    closIsSending |-> FALSE, transcribing |-> FALSE, nReplies |-> 0 ]

AudioInit == [ currentAudioSourceRef |-> NoSource, sounding |-> {} ]

(***************************************************************************)
(* History.  obs.last names what the last step delivered to the app:       *)
(* "onStart", "interrupt" (onInterruptCallback, then onStart), "onStop",   *)
(* "onStopSkipped" (onStop returned at "already sending"), "emptyBlob"     *)
(* (the stop handler found an empty blob and made no callback).            *)
(* obs.size is the size of the blob the last step's stop handler built.    *)
(* While lim.observe holds and the recorder has been in normal mode since  *)
(* startVAD, obs also follows the samples: phase "idle" (no voice run in   *)
(* progress, none confirmed yet), "hold" (hold consecutive samples above   *)
(* the onset threshold so far), "tail" (tail consecutive samples below it  *)
(* after a hold that spanned voiceContinueDuration); spikes counts the     *)
(* voice runs that ended sooner, starts and stops the callbacks.           *)
(***************************************************************************)
HoldCap == minRecordingDuration \div IntervalMs
TailCap == silenceDuration \div IntervalMs + 1

ObsOff ==
  [ last |-> "none", phase |-> "off", hold |-> 0, tail |-> 0, spikes |-> 0,
    starts |-> 0, stops |-> 0, empty |-> FALSE, level |-> 0, size |-> 0 ]

ObsIdle == [ObsOff EXCEPT !.phase = "idle"]

\* a hold of n samples spans (n - 1) * IntervalMs
Spans(n, ms) == (n - 1) * IntervalMs >= ms

Observe(o, r2, what, sample) ==
  IF ~( /\ lim.observe /\ o.phase # "off" /\ sample # "other"
        /\ r2.vadEnabled /\ ~r2.vadPaused /\ ~r2.isInterruptMode
        /\ ~(sample = "voice" /\ o.phase = "tail") )
  THEN [ObsOff EXCEPT !.last = what]
  ELSE LET o1 == [o EXCEPT
                    !.last = what, !.level = 0, !.size = 0,
                    !.starts = IF what = "onStart" THEN Min(@ + 1, MaxEvents) ELSE @,
                    !.stops = IF what \in {"onStop", "onStopSkipped"}
                              THEN Min(@ + 1, MaxEvents) ELSE @,
                    !.empty = @ \/ what = "emptyBlob"]
       IN CASE sample = "none" -> o1
            [] sample = "voice" ->
                 [o1 EXCEPT !.phase = "hold", !.hold = Min(@ + 1, HoldCap)]
            [] sample = "quiet" /\ o.phase = "idle" -> o1
            [] sample = "quiet" /\ o.phase = "tail" ->
                 [o1 EXCEPT !.tail = Min(@ + 1, TailCap)]
            [] sample = "quiet" /\ o.phase = "hold" ->
                 IF Spans(o.hold, voiceContinueDuration)
                 THEN [o1 EXCEPT !.phase = "tail", !.tail = 1]
                 ELSE [o1 EXCEPT !.phase = "idle", !.hold = 0,
                                 !.spikes = Min(@ + 1, MaxSpikes)]

\* the sample the interval callback read
Sampled(o, max) == [o EXCEPT !.level = IF lim.observe THEN max ELSE 0]

Note(what) == obs' = Observe(obs, rec', what, "none")

InitState ==
  /\ rec = RecInit
  /\ app = AppInit
  /\ replies = [k \in Replies |-> ReplyInit]
  /\ audio = AudioInit
  /\ obs = ObsOff

(***************************************************************************)
(* Actions of the recorder's timers and media events                       *)
(***************************************************************************)
BlobSizes == {0, 1024, 4096}

\* 100 ms pass while no VAD interval is installed
AdvanceTime ==
  /\ ~rec.levelInterval
  /\ elapse(rec) # rec
  /\ rec' = elapse(rec)
  /\ UNCHANGED <<app, replies, audio, lim>>
  /\ Note("none")

\* the interrupt branch of the interval callback (lines 507-521) with the
\* continuations stopAllAudio makes runnable
interruptTick(r0, max) ==
  LET k == r0.onInterruptCallback
      q == replies[k]
      q1 == stopAllAudioLocals(q)
      r1 == IF k = NoReply THEN r0 ELSE disableInterruptMode(r0)
      r2 == interruptStart(r1)
  IN /\ replies' = IF k = NoReply THEN replies ELSE [replies EXCEPT ![k] = q1]
     /\ audio' = IF k = NoReply THEN audio ELSE stopAllAudioSource(audio)
     /\ rec' = IF k = NoReply THEN r2 ELSE loopEnd(r2, q, q1)
     /\ app' = [app EXCEPT !.isRecording = TRUE,
                           !.isSending = IF k # NoReply /\ q.rd = "reading"
                                            /\ q.streamReader
                                         THEN FALSE ELSE @]
     /\ obs' = Sampled(Observe(obs, rec', "interrupt", "other"), max)

\* the callback of window.setInterval(..., 100) in startVADMonitoring, 100 ms
\* after the previous one.  A timeout that is due and a queued stop event
\* run before the next callback: the timeout was set inside an earlier
\* callback, so its 400 ms end after that of the interval.
VADTick ==
  /\ rec.levelInterval
  /\ rec.silenceTimer # 0
  /\ rec.pendingStops = <<>>
  /\ \E max \in Levels :
       LET b == vadBranch(rec, max)
           r0 == elapse(rec)
       IN CASE b = "stopped" ->
                 /\ rec' = stopVADMonitoring(elapse(rec))
                 /\ obs' = Sampled(Observe(obs, rec', "none", "other"), max)
                 /\ UNCHANGED <<app, replies, audio>>
            [] b = "paused" ->
                 /\ rec' = r0
                 /\ obs' = Sampled(Observe(obs, rec', "none", "other"), max)
                 /\ UNCHANGED <<app, replies, audio>>
            [] b = "interrupt" -> interruptTick(r0, max)
            [] b = "voice" ->
                 /\ rec' = voiceSample(r0)
                 /\ app' = [app EXCEPT !.isRecording = @ \/ voiceConfirmed(r0)]
                 /\ obs' = Sampled(Observe(obs, rec',
                                           IF voiceConfirmed(r0) THEN "onStart"
                                           ELSE "none", "voice"), max)
                 /\ UNCHANGED <<replies, audio>>
            [] b = "quiet" ->
                 /\ rec' = quietSample(r0)
                 /\ obs' = Sampled(Observe(obs, rec', "none", "quiet"), max)
                 /\ UNCHANGED <<app, replies, audio>>
  /\ UNCHANGED lim

\* the callback of window.setTimeout(..., silenceDuration)
SilenceTimerFire ==
  /\ rec.silenceTimer = 0
  /\ rec' = silenceCallback(rec)
  /\ UNCHANGED <<app, replies, audio, lim>>
  /\ Note("none")

\* variant: an onVadStopCallback without the "already sending" test
vadOnStop_NoGuard(size) ==
  /\ rec' = stopTimer([rec EXCEPT !.stateIsRecording = FALSE,
                                  !.pendingStops = Tail(@)])
  /\ app' = IF size = 0 THEN app
            ELSE [app EXCEPT !.isRecording = FALSE, !.isSending = TRUE,
                             !.transcribing = TRUE]
  /\ obs' = [Observe(obs, rec', IF size = 0 THEN "emptyBlob" ELSE "onStop",
                     "none")
               EXCEPT !.size = size]

\* the onstop handler set by stopVADRecording (lines 652-665) and the
\* onVadStopCallback of handleToggleVAD up to its first await (740-768)
vadOnStop(size) ==
  /\ rec' = stopTimer([rec EXCEPT !.stateIsRecording = FALSE,
                                  !.pendingStops = Tail(@)])
  /\ app' = IF size = 0 THEN app
            ELSE IF app.isSending THEN [app EXCEPT !.isRecording = FALSE]
            ELSE [app EXCEPT !.isRecording = FALSE, !.isSending = TRUE,
                             !.transcribing = TRUE]
  /\ obs' = [Observe(obs, rec',
                     IF size = 0 THEN "emptyBlob"
                     ELSE IF app.isSending THEN "onStopSkipped" ELSE "onStop",
                     "none")
               EXCEPT !.size = size]

\* the onstop handler set by stop() (lines 167-178)
plainOnStop ==
  LET r1 == stopTimer([rec EXCEPT !.stateIsRecording = FALSE,
                                  !.pendingStops = Tail(@)])
      r2 == IF r1.levelInterval
            THEN [r1 EXCEPT !.levelInterval = FALSE]
            ELSE r1
  IN /\ rec' = cleanupMedia(r2)
     /\ app' = app
     /\ Note("none")

\* a MediaRecorder fires the stop event queued by stop()
MediaRecorderStop ==
  /\ rec.pendingStops # <<>>
  /\ \E size \in BlobSizes :
       IF Head(rec.pendingStops).handler = "vad" THEN vadOnStop(size)
       ELSE plainOnStop
  /\ UNCHANGED <<replies, audio, lim>>

(***************************************************************************)
(* handleToggleVAD                                                         *)
(***************************************************************************)
\* the else branch (lines 697-818) with the microphone granted; the
\* callbacks it creates capture this render's isSending.  The awaits
\* before startVAD let queued stop events run first.
ToggleVADOn ==
  /\ ~app.isVADMode
  /\ rec.pendingStops = <<>>
  /\ rec' = startVAD(rec)
  /\ app' = [app EXCEPT !.isVADMode = TRUE, !.closIsSending = app.isSending]
  /\ obs' = IF lim.observe /\ ~rec.isVadRecording /\ ~rec.isInterruptMode
            THEN ObsIdle ELSE ObsOff
  /\ UNCHANGED <<replies, audio, lim>>

\* the then branch (lines 667-695)
ToggleVADOff ==
  /\ app.isVADMode
  /\ rec' = stopVAD(rec)
  /\ app' = [app EXCEPT !.isVADMode = FALSE]
  /\ audio' = stopAllAudioSource(audio)
  /\ UNCHANGED <<replies, lim>>
  /\ Note("none")

(***************************************************************************)
(* handleSend / handleSendStream and the playback loop                     *)
(***************************************************************************)
\* lines 143-292: the guard has passed; playbackLoop() runs to its first
\* await and the body suspends in await fetch
startReply(vadMode, closVAD) ==
  [ReplyInit EXCEPT !.rd = "fetching", !.playbackLoopRunning = TRUE,
                    !.lp = "waiting", !.resolveWaiter = TRUE,
                    !.vadMode = vadMode, !.closVAD = closVAD]

\* variant: a catch block that also ends the playback loop
sendFailed_StopLoop(k) ==
  /\ replies' = [replies EXCEPT ![k] =
                    wake([@ EXCEPT !.rd = "failed",
                                   !.playbackLoopRunning = FALSE])]
  /\ rec' = IF replies[k].closVAD THEN resumeVAD(disableInterruptMode(rec))
            ELSE rec
  /\ app' = [app EXCEPT !.isSending = FALSE]
  /\ UNCHANGED audio
  /\ Note("toastError")

\* catch (448-460) and finally (461-464) of handleSendStream: the toast of
\* type 'error', disableInterruptMode and resumeVAD if the closure saw VAD
\* mode, isSending = false
sendFailed(k) ==
  /\ replies' = [replies EXCEPT ![k].rd = "failed"]
  /\ rec' = IF replies[k].closVAD THEN resumeVAD(disableInterruptMode(rec))
            ELSE rec
  /\ app' = [app EXCEPT !.isSending = FALSE]
  /\ UNCHANGED audio
  /\ Note("toastError")

\* the send button of the Composer: handleSend of the current render
TypedSend ==
  /\ ~app.isSending
  /\ app.nReplies < lim.replies
  /\ LET k == app.nReplies + 1
     IN replies' = [replies EXCEPT ![k] = startReply(app.isVADMode, app.isVADMode)]
  /\ app' = [app EXCEPT !.isSending = TRUE, !.nReplies = @ + 1]
  /\ UNCHANGED <<rec, audio, lim>>
  /\ Note("none")

TranscribeOutcomes == {"text", "blank", "empty", "error"}

\* the rest of onVadStopCallback (773-810): the answer of /api/transcribe.
\* "text": success with text; "blank": success with whitespace-only text;
\* "empty": success false or no text; "error": the request failed.
\* handleSend is the one captured when VAD mode was switched on: its
\* isSending is closIsSending and its isVADMode is false.
TranscribeDone ==
  /\ app.transcribing
  /\ \E outcome \in TranscribeOutcomes :
       /\ outcome = "text" /\ ~app.closIsSending => app.nReplies < lim.replies
       /\ IF outcome = "text" /\ ~app.closIsSending
          THEN /\ replies' = [replies EXCEPT ![app.nReplies + 1] =
                                 startReply(app.isVADMode, FALSE)]
               /\ app' = [app EXCEPT !.transcribing = FALSE, !.isSending = TRUE,
                                     !.nReplies = @ + 1]
          ELSE /\ replies' = replies
               /\ app' = [app EXCEPT !.transcribing = FALSE,
                                     !.isSending = outcome \in {"text", "blank"}]
  /\ UNCHANGED <<rec, audio, lim>>
  /\ Note("none")

\* fetch rejects or answers a non-ok status (295-309)
StreamConnectFail(k) ==
  /\ replies[k].rd = "fetching"
  /\ sendFailed(k)
  /\ UNCHANGED lim

\* streamReader = reader (311-318)
StreamOpen(k) ==
  /\ replies[k].rd = "fetching"
  /\ replies' = [replies EXCEPT ![k].rd = "reading", ![k].streamReader = TRUE]
  /\ UNCHANGED <<rec, app, audio, lim>>
  /\ Note("none")

\* data.chunk of the next event: the server numbers the chunks from 0; in
\* a specification with lim.protocol the transport may deliver any number
ChunkNumbers(k) ==
  IF lim.protocol THEN 0..(lim.chunks - 1) ELSE {replies[k].nrecv}

\* an event with audio arrives (341-402)
StreamChunk(k) ==
  /\ replies[k].rd = "reading"
  /\ replies[k].nevents < lim.chunks
  /\ \E seq \in ChunkNumbers(k) :
       replies' = [replies EXCEPT ![k] = pushChunk(@, seq)]
  /\ rec' = IF replies[k].vadMode /\ ~replies[k].interruptModeEnabled
            THEN enableInterruptMode(rec, k) ELSE rec
  /\ UNCHANGED <<app, audio, lim>>
  /\ Note("none")

\* an event with text and without audio arrives: if (data.audio) is false
\* and the event is dropped (329-406)
StreamTextOnly(k) ==
  /\ replies[k].rd = "reading"
  /\ replies[k].nevents < lim.chunks
  /\ replies' = [replies EXCEPT ![k].nevents = @ + 1]
  /\ UNCHANGED <<rec, app, audio, lim>>
  /\ Note("none")

\* variant: the exception of a malformed event leaves the read loop
StreamMalformed_Abort(k) ==
  /\ replies[k].rd = "reading"
  /\ replies' = [replies EXCEPT ![k].rd = "failed",
                                ![k].skippedAt = replies[k].nrecv]
  /\ app' = [app EXCEPT !.isSending = FALSE]
  /\ UNCHANGED <<rec, audio, lim>>
  /\ Note("toastError")

\* a malformed event arrives: JSON.parse (333) or atob (365) throws inside
\* the try block, the catch of 403-405 logs it, and the for loop goes on
StreamMalformed(k) ==
  /\ replies[k].rd = "reading"
  /\ replies' = [replies EXCEPT ![k].skippedAt = replies[k].nrecv]
  /\ UNCHANGED <<rec, app, audio, lim>>
  /\ Note("none")

\* reader.read() answers done (323, 410-446, 461-464)
StreamEnd(k) ==
  /\ replies[k].rd = "reading"
  /\ replies' = [replies EXCEPT ![k] = readDone(@)]
  /\ app' = [app EXCEPT !.isSending = FALSE]
  /\ UNCHANGED <<rec, audio, lim>>
  /\ Note("none")

\* reader.read() rejects: a transport error
StreamError(k) ==
  /\ replies[k].rd = "reading"
  /\ sendFailed(k)
  /\ UNCHANGED lim

\* playAudioWithWebAudio: decodeAudioData resolves, the source is started
DecodeDone(k) ==
  /\ replies[k].lp = "decoding"
  /\ audio' = [audio EXCEPT !.currentAudioSourceRef = <<k, replies[k].cur>>,
                            !.sounding = @ \cup {<<k, replies[k].cur>>}]
  /\ replies' = [replies EXCEPT ![k].lp = "playing",
                                ![k].started = Append(@, replies[k].cur)]
  /\ UNCHANGED <<rec, app, lim>>
  /\ Note("none")

\* decodeAudioData rejects (539-543), then catch/finally of the loop
DecodeFail(k) ==
  /\ replies[k].lp = "decoding"
  /\ audio' = [audio EXCEPT !.currentAudioSourceRef = NoSource]
  /\ replies' = [replies EXCEPT ![k] =
                    afterPlay([@ EXCEPT !.undecoded = Append(@, replies[k].cur)])]
  /\ rec' = loopEnd(rec, replies[k], replies'[k])
  /\ UNCHANGED <<app, lim>>
  /\ Note("none")

\* source.onended (531-534), then finally of the loop
SourceEnded(k) ==
  /\ replies[k].lp = "playing"
  /\ <<k, replies[k].cur>> \in audio.sounding
  /\ audio' = [audio EXCEPT !.currentAudioSourceRef = NoSource,
                            !.sounding = @ \ {<<k, replies[k].cur>>}]
  /\ replies' = [replies EXCEPT ![k] = afterPlay(@)]
  /\ rec' = loopEnd(rec, replies[k], replies'[k])
  /\ UNCHANGED <<app, lim>>
  /\ Note("none")

(***************************************************************************)
(* Public recorder methods called by an arbitrary client (SpecRecorder)    *)
(***************************************************************************)
PauseVAD ==
  /\ rec.vadEnabled
  /\ rec' = pauseVAD(rec)
  /\ UNCHANGED <<app, replies, audio, lim>>
  /\ Note("none")

ResumeVAD ==
  /\ rec.vadEnabled
  /\ rec' = resumeVAD(rec)
  /\ UNCHANGED <<app, replies, audio, lim>>
  /\ Note("none")

EnableInterruptMode ==
  /\ rec.vadEnabled
  /\ rec' = enableInterruptMode(rec, NoReply)
  /\ UNCHANGED <<app, replies, audio, lim>>
  /\ Note("none")

DisableInterruptMode ==
  /\ rec.vadEnabled
  /\ rec' = disableInterruptMode(rec)
  /\ UNCHANGED <<app, replies, audio, lim>>
  /\ Note("none")

StreamConnectFails == \E k \in Replies : StreamConnectFail(k)
StreamOpens == \E k \in Replies : StreamOpen(k)
StreamChunks == \E k \in Replies : StreamChunk(k)
StreamEnds == \E k \in Replies : StreamEnd(k)
StreamTextOnlys == \E k \in Replies : StreamTextOnly(k)
StreamErrors == \E k \in Replies : StreamError(k)
StreamMalformeds == \E k \in Replies : StreamMalformed(k)
DecodeDones == \E k \in Replies : DecodeDone(k)
DecodeFails == \E k \in Replies : DecodeFail(k)
SourceEndeds == \E k \in Replies : SourceEnded(k)

(***************************************************************************)
(* Specifications                                                          *)
(***************************************************************************)
\* the application: VAD mode, typed and spoken sends, a streamed reply
Init ==
  /\ InitState
  /\ lim = [replies |-> MaxRepliesVAD, chunks |-> MaxChunksVAD, observe |-> FALSE,
            protocol |-> FALSE]

Next ==
  \/ ToggleVADOn \/ ToggleVADOff
  \/ AdvanceTime \/ VADTick \/ SilenceTimerFire \/ MediaRecorderStop
  \/ TypedSend \/ TranscribeDone
  \/ StreamConnectFails \/ StreamOpens \/ StreamChunks \/ StreamEnds \/ StreamErrors
  \/ DecodeDones \/ DecodeFails \/ SourceEndeds

Spec == Init /\ [][Next]_vars

\* the recorder under any order of calls of its public methods, with the
\* app's two callbacks
InitRecorder ==
  /\ InitState
  /\ lim = [replies |-> 0, chunks |-> 0, observe |-> TRUE,
            protocol |-> FALSE]

NextRecorder ==
  \/ ToggleVADOn \/ ToggleVADOff
  \/ AdvanceTime \/ VADTick \/ SilenceTimerFire \/ MediaRecorderStop
  \/ TranscribeDone
  \/ PauseVAD \/ ResumeVAD \/ EnableInterruptMode \/ DisableInterruptMode

SpecRecorder == InitRecorder /\ [][NextRecorder]_vars

\* replies to typed messages with VAD mode off
InitReply ==
  /\ InitState
  /\ lim = [replies |-> MaxReplies, chunks |-> MaxChunks, observe |-> FALSE,
            protocol |-> FALSE]

NextReply ==
  \/ TypedSend
  \/ StreamConnectFails \/ StreamOpens \/ StreamChunks \/ StreamEnds \/ StreamErrors
  \/ DecodeDones \/ DecodeFails \/ SourceEndeds

SpecReply == InitReply /\ [][NextReply]_vars

\* the same, where a decode that was started settles and a source that was
\* started ends
SpecReplyFair ==
  /\ SpecReply
  /\ WF_vars(DecodeDones \/ DecodeFails)
  /\ WF_vars(SourceEndeds)

\* one reply to a typed message with VAD mode off
InitSingle ==
  /\ InitState
  /\ lim = [replies |-> MaxRepliesSingle, chunks |-> MaxChunks,
            observe |-> FALSE, protocol |-> FALSE]

SpecSingle == InitSingle /\ [][NextReply]_vars

SpecSingleFair ==
  /\ SpecSingle
  /\ WF_vars(DecodeDones \/ DecodeFails)
  /\ WF_vars(SourceEndeds)

\* the same, where the stream may also deliver events without audio and
\* chunks whose data.chunk is not the next number
InitStream ==
  /\ InitState
  /\ lim = [replies |-> MaxRepliesSingle, chunks |-> MaxChunks,
            observe |-> FALSE, protocol |-> TRUE]

NextStream == NextReply \/ StreamTextOnlys

SpecStream == InitStream /\ [][NextStream]_vars

\* the application, where every request that was sent is answered: the
\* transcription settles, the stream request connects or fails, and an
\* open stream ends or breaks
SpecAnswered ==
  /\ Spec
  /\ WF_vars(TranscribeDone)
  /\ WF_vars(StreamConnectFails \/ StreamOpens)
  /\ WF_vars(StreamEnds \/ StreamErrors)

\* one reply to a typed message, where the stream may also deliver
\* malformed events
NextFaulty == NextReply \/ StreamMalformeds

SpecFaulty == InitSingle /\ [][NextFaulty]_vars

\* conversation mode stays on and the network does not fail: replies that
\* overlap each other and the recorder
InitOverlap ==
  /\ InitState
  /\ lim = [replies |-> MaxReplies, chunks |-> MaxChunksOverlap, observe |-> FALSE,
            protocol |-> FALSE]

NextOverlap ==
  \/ ToggleVADOn
  \/ VADTick \/ SilenceTimerFire \/ MediaRecorderStop
  \/ TypedSend \/ TranscribeDone
  \/ StreamOpens \/ StreamChunks \/ StreamEnds
  \/ DecodeDones \/ SourceEndeds

SpecOverlap == InitOverlap /\ [][NextOverlap]_vars

\* the same with the failures of the network and of the decoder: requests
\* of typed and spoken messages that overlap, succeed or fail
NextGuard ==
  \/ NextOverlap
  \/ StreamConnectFails \/ StreamErrors \/ DecodeFails

SpecGuard == InitOverlap /\ [][NextGuard]_vars

(***************************************************************************)
(* Properties                                                              *)
(***************************************************************************)
Sounding(k) == {c \in 1..MaxChunks : <<k, c>> \in audio.sounding}

\* C1: once the recorder has invoked stopAllAudio of a reply, the reply's
\* queue is empty, none of its chunks is sounding and none starts sounding
\* afterwards, wherever the playback loop was when the interrupt arrived.
C1_NoAudioAfterInterrupt ==
  \A k \in Replies :
    replies[k].cut => replies[k].audioQueue = <<>> /\ Sounding(k) = {}

\* C2: the playback loop of a reply that was not interrupted exits only
\* when the stream has ended and the queue is empty, so every chunk the
\* reader enqueued has been taken for playback before the loop exits.
C2_ExitOnlyWhenDrained ==
  \A k \in Replies :
    replies[k].lp = "exited" /\ ~replies[k].cut =>
      replies[k].rd = "done" /\ replies[k].audioQueue = <<>>

\* C3: after the reply stream has ended, the playback loop eventually
\* exits (and runs its completion statements), whatever it was doing when
\* the stream ended; it does not stay suspended in waitForQueue forever.
C3_LoopEventuallyExits ==
  \A k \in Replies : (replies[k].rd = "done") ~> (replies[k].lp = "exited")

\* C4: the recorder never has two MediaRecorder captures recording at the
\* same time, nor two duration intervals running at the same time.
C4_OneCaptureAtATime == rec.orphanRecorders = 0 /\ rec.orphanTimers = 0

\* a reply of conversation mode is Speaking: its first audio event has
\* arrived, it has not been interrupted, and its stream is still open or
\* one of its chunks is being decoded or is sounding
Speaking(k) ==
  /\ replies[k].vadMode /\ ~replies[k].cut /\ replies[k].nrecv > 0
  /\ replies[k].rd = "reading" \/ replies[k].lp \in {"decoding", "playing"}

LoudSample == CHOOSE max \in Levels : Above(max, vadInterruptThreshold)

\* C5: throughout the Speaking period of every reply, as long as no
\* interrupt has happened, the recorder is in the state in which a single
\* sample above the interrupt threshold takes the interrupt branch of the
\* next interval callback.
C5_InterruptArmedWhileSpeaking ==
  /\ \E k \in Replies : Speaking(k)
  /\ \A k \in Replies : ~replies[k].cut
  => vadBranch(rec, LoudSample) = "interrupt"

\* the stop event about to be handled ends a recording that an interrupt
\* started
InterruptUtteranceStops ==
  /\ rec.pendingStops # <<>>
  /\ Head(rec.pendingStops).handler = "vad"
  /\ Head(rec.pendingStops).origin = "interrupt"

\* C6: the interval callback that raises an interrupt also starts the
\* capture of the new utterance and tells the app (Listening), and when
\* that utterance ends with a non-empty blob it is submitted for
\* transcription, not skipped.
C6_InterruptThenListening ==
  [][ /\ obs'.last = "interrupt" =>
           /\ rec'.isVadRecording /\ rec'.mediaRecorder = "recording"
           /\ app'.isRecording
      /\ InterruptUtteranceStops => obs'.last # "onStopSkipped" ]_vars

\* since startVAD the recorder has stayed in normal mode, the samples have
\* been: short voice runs, then a voice run that spanned
\* voiceContinueDuration, then silence that spanned silenceDuration; the
\* silence timeout has fired and the stop event, if any, has been handled
PatternDone ==
  /\ obs.phase = "tail" /\ obs.tail = TailCap
  /\ rec.silenceTimer = NoTime /\ rec.pendingStops = <<>>

\* C7 as stated: a voice run of at least the continuity window followed by
\* silence of at least the silence window gives exactly one onStart and
\* exactly one onStop.
C7_OneStartOneStop == PatternDone => obs.starts = 1 /\ obs.stops = 1

\* C7 amended: such a sequence gives exactly one onStart, and onStop never
\* precedes it; it gives exactly one onStop when the voice run spanned
\* minRecordingDuration - IntervalMs (so that the recording has lasted
\* minRecordingDuration when the silence timeout fires) and the blob is
\* not empty, and no onStop otherwise.
C7_OneStartAndStopIfLongEnough ==
  /\ obs.phase # "off" => obs.stops <= obs.starts /\ obs.starts <= 1
  /\ PatternDone =>
       /\ obs.starts = 1
       /\ obs.stops = IF obs.hold >= HoldCap /\ ~obs.empty THEN 1 ELSE 0

C7_Witness == PatternDone /\ obs.hold >= HoldCap /\ obs.stops = 1

\* C8: onStart is invoked, or a recording is started, only in an interval
\* callback whose sample is above the onset threshold, in every recorder
\* mode: samples below the threshold never start anything.
C8_NoStartBelowOnset ==
  [][ \/ obs'.last \in {"onStart", "interrupt"}
      \/ rec'.stateIsRecording /\ ~rec.stateIsRecording
      => Above(obs'.level, vadThreshold) ]_vars

\* a sample below the onset threshold was read while interrupt mode was
\* armed, and nothing was started
C8_Witness ==
  /\ rec.vadEnabled /\ rec.isInterruptMode
  /\ obs.level \in Levels /\ ~Above(obs.level, vadThreshold)
  /\ obs.last = "none" /\ ~rec.stateIsRecording

\* in normal mode since startVAD, every voice run so far has been shorter
\* than voiceContinueDuration
OnlyShortSpikes ==
  \/ obs.phase = "idle"
  \/ obs.phase = "hold" /\ ~Spans(obs.hold, voiceContinueDuration)

\* C9: in normal mode, voice runs shorter than voiceContinueDuration
\* separated by silence emit nothing and start no recording, however many
\* there are: the continuity time restarts with every run.
C9_ShortSpikesEmitNothing ==
  OnlyShortSpikes =>
    /\ obs.starts = 0 /\ obs.stops = 0
    /\ ~rec.isVadRecording /\ ~rec.stateIsRecording /\ rec.mediaRecorder = "null"
    /\ rec.voiceDuration = IF obs.phase = "idle" THEN NoTime
                           ELSE (obs.hold - 1) * IntervalMs

\* two short voice runs have come and gone; the recorder is listening
C9_Witness ==
  /\ obs.phase = "idle" /\ obs.spikes = MaxSpikes
  /\ rec.vadEnabled /\ rec.levelInterval

\* the stop event about to be handled ends a VAD recording that had lasted
\* less than minRecordingDuration when it was stopped
ShortUtteranceStops ==
  /\ rec.pendingStops # <<>>
  /\ Head(rec.pendingStops).handler = "vad"
  /\ Head(rec.pendingStops).short

\* C10: a VAD recording shorter than minRecordingDuration is never handed
\* to the onStop callback (and so never posted to /api/transcribe),
\* whichever way the recording was ended.
C10_ShortNeverDelivered ==
  [][ ShortUtteranceStops => obs'.last \notin {"onStop", "onStopSkipped"} ]_vars

\* a reply is being streamed or played: its request or stream is open, one
\* of its chunks is being decoded or is sounding, or its running loop still
\* has chunks to play
ReplyActive(k) ==
  \/ replies[k].rd \in {"fetching", "reading"}
  \/ replies[k].lp \in {"decoding", "playing"}
  \/ replies[k].audioQueue # <<>> /\ replies[k].lp # "exited"

\* C11: the recorder's interrupt mode is on only while a reply is being
\* streamed or played; once every reply has ended, for whatever reason,
\* interrupt mode is off.
C11_ArmedOnlyWhileSpeaking ==
  rec.isInterruptMode => \E k \in Replies : ReplyActive(k)

\* C12: after stopAllAudio of a reply has run, the reply's queue is empty
\* and its reader is cancelled (the read loop has ended, so no chunk is
\* enqueued any more): never one without the other.
C12_QueueAndReaderCancelledTogether ==
  \A k \in Replies :
    replies[k].cut =>
      /\ replies[k].audioQueue = <<>>
      /\ ~replies[k].streamReader
      /\ replies[k].rd \in {"done", "failed"}

\* the interrupt came while chunk 1 was sounding and chunk 2 had been
\* received
C12_Witness ==
  \E k \in Replies :
    /\ replies[k].cut /\ replies[k].rd = "done"
    /\ replies[k].nrecv = 2 /\ replies[k].started = <<1>>
    /\ replies[k].lp = "playing"

Increasing(seq) == \A i, j \in 1..Len(seq) : i < j => seq[i] < seq[j]

\* C13: within one reply the chunks are played in the order in which they
\* were enqueued (chunks are numbered in that order): the chunks started
\* so far, then the queued ones, are in increasing order, and only the
\* chunk started last can be sounding, so a chunk has ended before the
\* next one starts.
C13_PlayedInArrivalOrder ==
  \A k \in Replies :
    /\ Increasing(replies[k].started \o replies[k].audioQueue)
    /\ \A c \in Sounding(k) :
         /\ replies[k].started # <<>>
         /\ c = replies[k].started[Len(replies[k].started)]

\* three chunks have been started, the later ones enqueued while an
\* earlier one was being played
C13_Witness ==
  \E k \in Replies :
    /\ Len(replies[k].started) = MaxChunks
    /\ replies[k].rd = "reading" /\ replies[k].lp = "playing"

\* C14: only chunks that arrive in sequence-number order (0, 1, 2, ...
\* without a gap) are enqueued for playback; a chunk that arrives out of
\* order or after a gap is not enqueued as it comes.
C14_OnlyInSequenceEnqueued ==
  \A k \in Replies :
    \A i \in 1..Len(replies[k].seqs) : replies[k].seqs[i] = i - 1

\* C15: when an uninterrupted reply's stream has ended, fullText is the
\* in-order concatenation of the text fragments of all events the stream
\* delivered, those without audio included.
C15_FullTextIsAllFragments ==
  \A k \in Replies :
    replies[k].rd = "done" /\ ~replies[k].cut =>
      replies[k].fullText = [i \in 1..replies[k].nevents |-> i]

\* C16: at most one reply audio chunk is sounding at any time, also when a
\* reply is started while the previous reply's last chunk is still
\* sounding.
C16_NoOverlap == Cardinality(audio.sounding) <= 1

\* the elements of a sequence
Range(seq) == {seq[i] : i \in 1..Len(seq)}

\* C17: a transport error does not clear the queue: the step in which
\* the reply fails leaves the queue as it is, and every chunk that is in
\* the queue of a failed reply is afterwards taken by the playback loop and
\* started (unless its own decoding fails), the chunks being started in
\* arrival order.
C17_QueuedChunksPlayedAfterError ==
  /\ [][\A k \in Replies :
          replies'[k].rd = "failed" /\ replies[k].rd # "failed"
            => replies'[k].audioQueue = replies[k].audioQueue]_vars
  /\ \A k \in Replies : \A n \in 1..(MaxChunks + 1) :
       (replies[k].rd = "failed" /\ n \in Range(replies[k].audioQueue))
         ~> (/\ n \in Range(replies[k].started) \cup Range(replies[k].undecoded)
             /\ Increasing(replies[k].started))

\* the stream has failed while a chunk is being played and a later one
\* is waiting in the queue
C17_Witness ==
  \E k \in Replies :
    /\ replies[k].rd = "failed" /\ replies[k].lp = "playing"
    /\ replies[k].audioQueue # <<>>
    /\ replies[k].started # <<>>

\* C18: once a reply of conversation mode has failed (the request did not
\* connect, or the stream broke) and none of its chunks is being decoded
\* or sounding any more, the sending guard is false (unless a later
\* utterance is being transcribed), the recorder's interrupt mode is off,
\* and the reply's playback loop has exited.
C18_FailureReleasesEverything ==
  \A k \in Replies :
    /\ replies[k].vadMode /\ replies[k].rd = "failed"
    /\ replies[k].lp \notin {"decoding", "playing"}
    => /\ app.isSending => app.transcribing
       /\ ~rec.isInterruptMode
       /\ replies[k].lp = "exited"

\* C19: when a reply's stream breaks after at least one of its chunks has
\* been started, the failure is not reported with the toast of type
\* 'error' that reports a failed send.
C19_ErrorAfterPlaybackIsSoft ==
  [][\A k \in Replies :
       /\ replies'[k].rd = "failed" /\ replies[k].rd = "reading"
       /\ replies[k].started # <<>>
       => obs'.last # "toastError"]_vars

\* a reply of conversation mode has finished naturally: its stream has
\* ended without an interrupt, every chunk it delivered has been played,
\* and none is being decoded or sounding
FinishedNaturally(k) ==
  /\ replies[k].vadMode /\ ~replies[k].cut /\ replies[k].rd = "done"
  /\ replies[k].nrecv > 0
  /\ replies[k].started = [i \in 1..replies[k].nrecv |-> i]
  /\ replies[k].lp \notin {"decoding", "playing"}
  /\ Sounding(k) = {}

\* C20: once the reply has finished naturally and no other reply is being
\* streamed or played, a level sample above the interrupt threshold does
\* not take the interrupt branch: nothing is stopped and no recording is
\* started without the continuity check.
C20_LateBargeInIsNoOp ==
  [][ /\ \E k \in Replies : FinishedNaturally(k)
      /\ \A k \in Replies : ~ReplyActive(k)
      => obs'.last # "interrupt" ]_vars

\* C21: a malformed event is skipped without aborting the reply: the step
\* that handles it changes nothing of the reply's state (the read loop is
\* still reading, the queue and fullText are as before, no failure is
\* reported), and afterwards every chunk the stream delivers is still
\* accounted for (started, undecodable, being decoded or queued) and has
\* its text in fullText.
C21_MalformedEventSkipped ==
  /\ [][\A k \in Replies :
          replies'[k].skippedAt # replies[k].skippedAt
            => /\ replies'[k] = [replies[k] EXCEPT !.skippedAt = replies'[k].skippedAt]
               /\ UNCHANGED <<rec, app, audio>>
               /\ obs'.last # "toastError"]_vars
  /\ [](\A k \in Replies :
          replies[k].skippedAt # NoTime /\ ~replies[k].cut =>
            /\ replies[k].fullText = [i \in 1..replies[k].nrecv |-> i]
            /\ LET taken == replies[k].nrecv - Len(replies[k].audioQueue)
               IN /\ replies[k].audioQueue =
                       [i \in 1..Len(replies[k].audioQueue) |-> taken + i]
                  /\ \A n \in 1..taken :
                       \/ n \in Range(replies[k].started)
                       \/ n \in Range(replies[k].undecoded)
                       \/ n = replies[k].cur /\ replies[k].lp = "decoding")

\* a chunk that arrived after a malformed event has been started
C21_Witness ==
  \E k \in Replies :
    /\ replies[k].skippedAt # NoTime
    /\ \E n \in Range(replies[k].started) : n > replies[k].skippedAt
    /\ Len(replies[k].fullText) > replies[k].skippedAt

\* C22: when the decoding of one chunk has failed, the playback loop goes
\* on: every chunk that is in the queue after the failure is afterwards
\* taken by the loop and started (or fails to decode in its turn).
C22_DecodeFailureAdvances ==
  \A k \in Replies : \A m \in 1..(MaxChunks + 1) :
    (/\ replies[k].undecoded # <<>> /\ ~replies[k].cut
     /\ m \in Range(replies[k].audioQueue))
      ~> (m \in Range(replies[k].started) \cup Range(replies[k].undecoded))

\* C23: a captured segment whose blob is smaller than the byte-size floor
\* is never submitted to /api/transcribe: the onStop callback that goes on
\* to the transcription request has a blob of at least minBlobSize bytes.
C23_SmallSegmentNotTranscribed ==
  obs.last = "onStop" => obs.size >= minBlobSize

\* C24: every segment the recorder delivers to the onStop callback is
\* submitted to /api/transcribe, once: the step that delivers it starts a
\* transcription request, also while an earlier transcription or reply
\* stream is in flight.
C24_DeliveredSegmentTranscribedOnce ==
  [][ obs'.last \in {"onStop", "onStopSkipped"}
        => ~app.transcribing /\ app'.transcribing ]_vars

\* C25: a pending silence timer is cancelled by a sample above the onset
\* threshold also on the tick that raises an interrupt: after that tick no
\* silence timer of the earlier recording is pending, so none can stop or
\* discard the recording the interrupt has started.
C25_InterruptCancelsSilenceTimer ==
  obs.last = "interrupt" => ~rec.silenceTimeout

\* C26: in conversation mode the sending guard set when an utterance is
\* submitted for transcription is eventually cleared, whatever the
\* transcription answers.
C26_GuardEventuallyCleared ==
  app.transcribing ~> ~app.isSending

\* C27: stopVAD clears the recorder's recording flag: while VAD is stopped
\* isVadRecording is false, so that the voice branch of the next startVAD
\* can start a recording.
C27_StopVADClearsRecordingFlag ==
  ~rec.vadEnabled => ~rec.isVadRecording

QuietSample == CHOOSE max \in Levels : ~Above(max, vadThreshold)

\* C28: while a recording started by an interrupt is in progress, a sample
\* at or below the onset threshold starts the silence timer (or finds it
\* running), so that the recording is stopped within silenceDuration,
\* whatever happened before the interrupt.
C28_InterruptRecordingEnds ==
  /\ rec.isVadRecording /\ rec.recOrigin = "interrupt"
  /\ rec.levelInterval /\ rec.pendingStops = <<>>
  /\ vadBranch(rec, QuietSample) = "quiet"
  => quietSample(elapse(rec)).silenceTimer # NoTime

\* C29: the app's isRecording indicator follows the recorder: it is true
\* only while the recorder has a recording in progress or a stop event of
\* one still to handle; once the recorder has stopped, for whatever reason,
\* the indicator is false.
C29_IndicatorFollowsRecorder ==
  app.isRecording =>
    \/ rec.mediaRecorder = "recording"
    \/ rec.stateIsRecording
    \/ rec.pendingStops # <<>>

\* the replies whose request or stream is in flight
InFlight == {k \in Replies : replies[k].rd \in {"fetching", "reading"}}

====
